---- MODULE Spec2Model ----
(***************************************************************************)
(* Model of fastapi_structlog: setup_logger / LoggerConfigurator.setup,    *)
(* the root logger with its console handler and QueueHandler, the shared   *)
(* queue, the QueueListener with the file, syslog and database handlers,   *)
(* the exception hook installed by setup, the structlog context with the  *)
(* two ASGI middlewares that bind it, and the processor chain.             *)
(***************************************************************************)
EXTENDS Integers, Sequences, FiniteSets, TLC

VARIABLES
    pc,             \* "start" | "configured" | "failed" (setup raised ValueError)
    settings,       \* the LogSettings handed to setup_logger
    call,           \* the keyword arguments handed to setup_logger
    handlers,       \* LoggerConfigurator.handlers: LogType -> handler or NoHandler
    rootHandlers,   \* logging.root.handlers, in the order they were added
    rootLevel,      \* logging.root.level
    foreign,        \* named loggers of loggerDict that hold a handler of their own
    disable,        \* logging.root.manager.disable
    excepthook,     \* sys.excepthook: "default" | "handle_exception"
    listener,       \* the value setup returned and the state of its thread: "none",
                    \* "created", "running", "stopping", "stopped", "crashed" (an
                    \* exception ended the thread), "crashed_stopped"
    queue,          \* _queue: records and the listener's sentinel
    dequeued,       \* ids of the records the listener thread took off the queue
    records,        \* every LogRecord created, by id
    dropped,        \* the log calls refused by isEnabledFor: level and event
    console,        \* ids written by the console StreamHandler
    file,           \* ids written by the TimedRotatingFileHandler
    syslog,         \* ids sent by the SysLogHandler
    db,             \* rows committed by the DatabaseHandler
    errors,         \* ids handed to QueueHandler.handleError
    hook,           \* the exception types handle_exception was called with
    defaultCalls,   \* calls of sys.__excepthook__
    ctx,            \* structlog.contextvars: the context of the serving task
    mw,             \* the request in the middleware stack: position, scope,
                    \* correlation_id, AccessInfo and the exception in flight
    proc            \* an event on its way through the processor chain

vars == <<pc, settings, call, handlers, rootHandlers, rootLevel, foreign, disable,
          excepthook, listener, queue, dequeued, records, dropped, console, file,
          syslog, db,
          errors, hook, defaultCalls, ctx, mw, proc>>

\* what the logging actions leave alone
served == <<ctx, mw, proc>>

(* ------------------------------ bounds -------------------------------- *)

\* log calls and uncaught exceptions after setup
MaxRecords == 2

(* ----------------------------- constants ------------------------------ *)

NOTSET == 0
DEBUG == 10
INFO == 20
WARNING == 30
ERROR == 40
CRITICAL == 50

\* the levels application code logs at (handle_exception logs at ERROR)
LogLevels == {DEBUG, INFO, CRITICAL}

CONSOLE_T == "console"
INTERNAL_T == "internal"
SYSLOG_T == "syslog"
FILE_T == "file"

\* class LogType(Enum), in declaration (= iteration) order
LogType == <<CONSOLE_T, INTERNAL_T, SYSLOG_T, FILE_T>>

LogTypes == {LogType[i] : i \in 1..Len(LogType)}

LoggerNames == {"default", "api.access"}

NoHandler == [kind |-> "none", available_loggers |-> {}, search_paths |-> {}]

QUEUE_H == "queue"

\* QueueListener._sentinel, as it sits in the queue
Sentinel ==
    [id |-> 0, name |-> "", levelno |-> 0, msg_is_dict |-> FALSE,
     args_is_dict |-> FALSE, data |-> {}, event |-> "", exc_info |-> "none"]
CONTEXT_KEY == "structlog_context"

ExcTypes == {"KeyboardInterrupt", "Interrupted", "ValueError"}

(* --------------------------- dictionaries ----------------------------- *)
(* A dict is a set of <<path, value>> pairs, one per leaf: the pair        *)
(* <<<<"session", "user_id">>, "7">> is {'session': {'user_id': '7'}}.     *)
(* "None" is Python's None and "dict" stands for a nested dict value.     *)

EmptyDict == {}

\* k in d
HasKey(d, k) == \E e \in d : e[1][1] = k

\* d.get(k): the leaf, a nested dict, or None
Get(d, k) ==
    IF \E e \in d : e[1] = <<k>>
    THEN (CHOOSE e \in d : e[1] = <<k>>)[2]
    ELSE IF HasKey(d, k) THEN "dict" ELSE "None"

\* cast(dict, d.get(k, {})): the dict nested under k
Sub(d, k) == {<<Tail(e[1]), e[2]>> : e \in {x \in d : Len(x[1]) > 1 /\ x[1][1] = k}}

\* d[k] = v for a dict v: v's leaves under k ({} is kept as a leaf of its own)
SetItem(d, k, v) ==
    {e \in d : e[1][1] # k}
        \cup (IF v = EmptyDict THEN {<<(<<k>>), "{}">>}
              ELSE {<<(<<k>>) \o e[1], e[2]>> : e \in v})

\* the event dicts and access-log atoms a log call may carry
Payloads ==
    { EmptyDict,
      {<<(<<"user_id">>), "3">>},
      {<<(<<"session", "user_id">>), "7">>} }

\* setup_logger's search_paths argument: None, or the documented example
SearchPathArgs == { {}, {<<"user_id", <<"session", "user_id">>>>} }

(* ------------------------- DatabaseHandler ---------------------------- *)

\* BaseDatabaseHandler.__init__: `x or {}`, set(available_loggers)
BaseDatabaseHandlerInit(search_paths, available_loggers) ==
    [kind |-> INTERNAL_T,
     available_loggers |-> available_loggers,
     search_paths |-> search_paths]

\* DatabaseHandler.sources: msg and msg['request'] when msg is a dict, args
\* when args is a dict
sources(record) ==
    (IF record.msg_is_dict THEN <<record.data, Sub(record.data, "request")>> ELSE <<>>)
        \o (IF record.args_is_dict THEN <<record.data>> ELSE <<>>)

\* DatabaseHandler.get_key_aliases, for the fields modelled
KeyAliases == {<<"status_code", <<"s">>>>}

\* the first alias present in the source, or None
RECURSIVE AliasValue(_, _, _)
AliasValue(source, aliases, i) ==
    IF i > Len(aliases) THEN "None"
    ELSE IF HasKey(source, aliases[i]) THEN Get(source, aliases[i])
    ELSE AliasValue(source, aliases, i + 1)

\* the walk along a search path: annotated_last, .get(key, {}), then .get(key)
RECURSIVE PathValue(_, _, _)
PathValue(data_, path, i) ==
    IF i > Len(path) THEN "None"
    ELSE IF i < Len(path) THEN PathValue(Sub(data_, path[i]), path, i + 1)
    ELSE Get(data_, path[i])

\* the value one source gives for a model attribute
SourceValue(h, source, name) ==
    IF HasKey(source, name) THEN Get(source, name)
    ELSE IF \E a \in KeyAliases : a[1] = name
    THEN AliasValue(source, (CHOOSE a \in KeyAliases : a[1] = name)[2], 1)
    ELSE IF \E sp \in h.search_paths : sp[1] = name
    THEN PathValue(source, (CHOOSE sp \in h.search_paths : sp[1] = name)[2], 1)
    ELSE "None"

\* the loop over the sources: the first value that is not None
RECURSIVE FieldValue(_, _, _, _)
FieldValue(h, srcs, name, i) ==
    IF i > Len(srcs) THEN "None"
    ELSE IF SourceValue(h, srcs[i], name) # "None" THEN SourceValue(h, srcs[i], name)
    ELSE FieldValue(h, srcs, name, i + 1)

\* DatabaseHandler.construct_message: the row for a record
construct_message(h, record) ==
    [id |-> record.id,
     logger |-> record.name,
     level |-> record.levelno,
     user_id |-> FieldValue(h, sources(record), "user_id", 1)]

\* BaseDatabaseHandler.emit's first statement: the record is not for this handler
Filtered(h, record) ==
    h.available_loggers # {} /\ record.name \notin h.available_loggers

(* --------------------------- the factories ---------------------------- *)

StreamHandler == [kind |-> CONSOLE_T, available_loggers |-> {}, search_paths |-> {}]
FileHandler == [kind |-> FILE_T, available_loggers |-> {}, search_paths |-> {}]
SysLogHandler == [kind |-> SYSLOG_T, available_loggers |-> {}, search_paths |-> {}]
QueueHandler == [kind |-> QUEUE_H, available_loggers |-> {}, search_paths |-> {}]

\* DatabaseHandlerFactory.create_handler: every keyword but model and db_url
\* lands in **_
DatabaseHandlerFactoryCreate(search_paths, available_loggers) ==
    BaseDatabaseHandlerInit({}, {})

\* LoggerConfigurator.add_handler
add_handler(hs, type_, handler) == [hs EXCEPT ![type_] = handler]

\* setup_logger, lines 57-87: the handlers it registers
Registered(st, kw) ==
    LET h0 == [t \in LogTypes |-> NoHandler]
        h1 == add_handler(h0, CONSOLE_T, StreamHandler)
        h2 == IF st.filename THEN add_handler(h1, FILE_T, FileHandler) ELSE h1
        h3 == IF st.syslog_host THEN add_handler(h2, SYSLOG_T, SysLogHandler) ELSE h2
        h4 == IF kw.db_url /\ kw.model
              THEN add_handler(h3, INTERNAL_T,
                       DatabaseHandlerFactoryCreate(kw.search_paths, kw.available_loggers))
              ELSE h3
    IN  h4

(* ------------------------ LoggerConfigurator.setup -------------------- *)

\* logging._checkLevel: the level a level name stands for
checkLevel(name) ==
    CASE name = "DEBUG" -> DEBUG
      [] name = "INFO" -> INFO
      [] name = "WARNING" -> WARNING
      [] name = "ERROR" -> ERROR
      [] name = "CRITICAL" -> CRITICAL

\* Logger.addHandler: a handler is added once
addHandler(hs, h) ==
    IF \E i \in 1..Len(hs) : hs[i] = h THEN hs ELSE Append(hs, h)

\* setup with the console handler handed to the listener like the others
RECURSIVE SetupLoop_ConsoleQueued(_, _, _, _)
SetupLoop_ConsoleQueued(i, hs, types, acc) ==
    IF i > Len(LogType) THEN acc
    ELSE IF LogType[i] \notin types THEN SetupLoop_ConsoleQueued(i + 1, hs, types, acc)
    ELSE IF hs[LogType[i]] = NoHandler THEN [acc EXCEPT !.raised = TRUE]
    ELSE SetupLoop_ConsoleQueued(i + 1, hs, types,
                                 [acc EXCEPT !.handlers = Append(@, hs[LogType[i]])])

\* setup attaching every registered handler, whatever settings.types lists
RECURSIVE SetupLoop_AllRegistered(_, _, _, _)
SetupLoop_AllRegistered(i, hs, types, acc) ==
    IF i > Len(LogType) THEN acc
    ELSE IF hs[LogType[i]] = NoHandler
    THEN IF LogType[i] \in types THEN [acc EXCEPT !.raised = TRUE]
         ELSE SetupLoop_AllRegistered(i + 1, hs, types, acc)
    ELSE IF LogType[i] = CONSOLE_T
    THEN SetupLoop_AllRegistered(i + 1, hs, types,
                                 [acc EXCEPT !.root = addHandler(@, hs[LogType[i]])])
    ELSE SetupLoop_AllRegistered(i + 1, hs, types,
                                 [acc EXCEPT !.handlers = Append(@, hs[LogType[i]])])

\* setup skipping a listed type that has no handler instead of raising
RECURSIVE SetupLoop_SkipMissing(_, _, _, _)
SetupLoop_SkipMissing(i, hs, types, acc) ==
    IF i > Len(LogType) THEN acc
    ELSE IF LogType[i] \notin types \/ hs[LogType[i]] = NoHandler
    THEN SetupLoop_SkipMissing(i + 1, hs, types, acc)
    ELSE IF LogType[i] = CONSOLE_T
    THEN SetupLoop_SkipMissing(i + 1, hs, types,
                               [acc EXCEPT !.root = addHandler(@, hs[LogType[i]])])
    ELSE SetupLoop_SkipMissing(i + 1, hs, types,
                               [acc EXCEPT !.handlers = Append(@, hs[LogType[i]])])

\* the loop `for type_ in LogType` of setup: acc.root is root_logger.handlers,
\* acc.handlers the local list, acc.raised the ValueError
RECURSIVE SetupLoop(_, _, _, _)
SetupLoop(i, hs, types, acc) ==
    IF i > Len(LogType) THEN acc
    ELSE IF LogType[i] \notin types THEN SetupLoop(i + 1, hs, types, acc)
    ELSE IF hs[LogType[i]] = NoHandler THEN [acc EXCEPT !.raised = TRUE]
    ELSE IF LogType[i] = CONSOLE_T
    THEN SetupLoop(i + 1, hs, types, [acc EXCEPT !.root = addHandler(@, hs[LogType[i]])])
    ELSE SetupLoop(i + 1, hs, types, [acc EXCEPT !.handlers = Append(@, hs[LogType[i]])])

\* setLevel that takes log_level whatever debug says
SetupLevel_IgnoreDebug(st) == checkLevel(st.log_level)

\* root_logger.setLevel(log_level if not debug else logging.DEBUG)
SetupLevel(st) == IF ~st.debug THEN checkLevel(st.log_level) ELSE DEBUG

\* setup's `if handlers:` before the QueueHandler is added to the root logger
AddsQueueHandler(hl) == hl # <<>>

\* setup returning a listener even for an empty handler list
ReturnsListener_Always(hl) == TRUE

\* setup's `if handlers:` before the QueueListener is returned
ReturnsListener(hl) == hl # <<>>

NoListener == [state |-> "none", handlers |-> <<>>]

\* setup_logger that never calls logging.disable()
DisableLevel_Never(st) == disable

\* logging.disable() when settings.enable is false: the default level is CRITICAL
DisableLevel(st) == IF ~st.enable THEN CRITICAL ELSE disable

\* LoggerConfigurator.setup on the handlers registered so far
setup(hs) ==
    LET loop == SetupLoop(1, hs, settings.types,
                          [raised |-> FALSE, root |-> rootHandlers, handlers |-> <<>>])
    IN  IF loop.raised
        THEN /\ pc' = "failed"
             /\ rootHandlers' = loop.root
             /\ UNCHANGED <<rootLevel, foreign, excepthook, listener>>
        ELSE /\ pc' = "configured"
             /\ rootHandlers' = IF AddsQueueHandler(loop.handlers)
                                THEN addHandler(loop.root, QueueHandler)
                                ELSE loop.root
             /\ rootLevel' = SetupLevel(settings)
             /\ foreign' = {}
             /\ excepthook' = "handle_exception"
             /\ listener' = IF ReturnsListener(loop.handlers)
                            THEN [state |-> "created", handlers |-> loop.handlers]
                            ELSE NoListener

\* setup_logger(settings_, model=, db_url=, search_paths=, available_loggers=)
SetupLogger ==
    /\ pc = "start"
    /\ handlers' = Registered(settings, call)
    /\ disable' = DisableLevel(settings)
    /\ setup(handlers')
    /\ UNCHANGED <<settings, call, queue, dequeued, records, dropped, console, file,
                   syslog, db, errors, hook, defaultCalls>>
    /\ UNCHANGED served

(* ------------------------------ logging ------------------------------- *)

\* Logger.isEnabledFor: manager.disable and the effective level, which is the
\* root level for every named logger (their own level is NOTSET)
isEnabledFor(level) == ~(disable >= level) /\ level >= rootLevel

\* structlog.contextvars.get_contextvars()
get_contextvars == ctx

\* QueueHandler.emit, lines 38-41: the context goes into msg or args, whichever
\* is a dict
Attach(record, context) ==
    IF record.msg_is_dict \/ record.args_is_dict
    THEN [record EXCEPT !.data = SetItem(@, CONTEXT_KEY, context)]
    ELSE record

EmitOutcomes == {"ok", "attach_raises", "enqueue_raises"}

\* emit that enqueues again after a failure has been reported
QueueHandlerEmit_Retry(acc, record, outcome) ==
    IF outcome = "ok"
    THEN [acc EXCEPT !.queue = Append(@, Attach(record, get_contextvars))]
    ELSE [acc EXCEPT !.errors = Append(@, record.id),
                     !.queue = Append(@, Attach(record, get_contextvars))]

\* QueueHandler.emit: enqueue once, or handleError
QueueHandlerEmit(acc, record, outcome) ==
    IF outcome = "ok"
    THEN [acc EXCEPT !.queue = Append(@, Attach(record, get_contextvars))]
    ELSE [acc EXCEPT !.errors = Append(@, record.id)]

\* Logger.callHandlers: the handlers of the root logger, in order
RECURSIVE callHandlers(_, _, _, _, _)
callHandlers(i, hs, record, outcome, acc) ==
    IF i > Len(hs) THEN acc
    ELSE IF hs[i].kind = QUEUE_H
    THEN callHandlers(i + 1, hs, record, outcome, QueueHandlerEmit(acc, record, outcome))
    ELSE callHandlers(i + 1, hs, record, outcome,
                      [acc EXCEPT !.console = Append(@, record.id)])

HasQueueHandler == \E i \in 1..Len(rootHandlers) : rootHandlers[i].kind = QUEUE_H

LogCalls == Len(records) + Len(dropped)

\* a log call through a logger: logger.info(...), log.error(...)
LogCall(name, level, data, event, exc_info, outcome) ==
    IF ~isEnabledFor(level)
    THEN /\ dropped' = Append(dropped, [levelno |-> level, event |-> event])
         /\ UNCHANGED <<records, console, queue, errors>>
    ELSE LET record == [id |-> Len(records) + 1, name |-> name, levelno |-> level,
                        msg_is_dict |-> (name = "default"),
                        args_is_dict |-> (name = "api.access"),
                        data |-> data, event |-> event, exc_info |-> exc_info]
             acc == callHandlers(1, rootHandlers, record, outcome,
                        [console |-> console, queue |-> queue, errors |-> errors])
         IN  /\ records' = Append(records, record)
             /\ console' = acc.console
             /\ queue' = acc.queue
             /\ errors' = acc.errors
             /\ UNCHANGED dropped

\* application code logs one event, its payload drawn from `payloads`
LogEvent(payloads) ==
    /\ pc = "configured"
    /\ LogCalls + defaultCalls < MaxRecords
    /\ \E name \in LoggerNames, level \in LogLevels, data \in payloads,
          outcome \in (IF HasQueueHandler THEN EmitOutcomes ELSE {"ok"}) :
            LogCall(name, level, data, "event", "none", outcome)
    /\ UNCHANGED <<pc, settings, call, handlers, rootHandlers, rootLevel, foreign,
                   disable, excepthook, listener, dequeued, file, syslog, db, hook,
                   defaultCalls>>
    /\ UNCHANGED served

\* a log call whose payload plays no part
Log == LogEvent({EmptyDict})

\* a log call with a payload for the database handler to read
LogData == LogEvent(Payloads)

(* --------------------------- handle_exception ------------------------- *)

\* issubclass(exc_type, KeyboardInterrupt)
IsKeyboardInterrupt(exc_type) == exc_type \in {"KeyboardInterrupt", "Interrupted"}

\* handle_exception without the return after the default hook
handle_exception_NoReturn(exc_type, outcome) ==
    /\ defaultCalls' = IF IsKeyboardInterrupt(exc_type) THEN defaultCalls + 1
                       ELSE defaultCalls
    /\ LogCall("default", ERROR, EmptyDict, "Uncaught exception", exc_type, outcome)

\* handle_exception(exc_type, exc_value, exc_traceback), called as sys.excepthook
handle_exception(exc_type, outcome) ==
    IF IsKeyboardInterrupt(exc_type)
    THEN /\ defaultCalls' = defaultCalls + 1
         /\ UNCHANGED <<records, dropped, console, queue, errors>>
    ELSE /\ LogCall("default", ERROR, EmptyDict, "Uncaught exception", exc_type, outcome)
         /\ UNCHANGED defaultCalls

UncaughtException ==
    /\ excepthook = "handle_exception"
    /\ LogCalls + defaultCalls < MaxRecords
    /\ \E exc_type \in ExcTypes,
          outcome \in (IF HasQueueHandler THEN EmitOutcomes ELSE {"ok"}) :
            /\ hook' = Append(hook, exc_type)
            /\ handle_exception(exc_type, outcome)
    /\ UNCHANGED <<pc, settings, call, handlers, rootHandlers, rootLevel, foreign,
                   disable, excepthook, listener, dequeued, file, syslog, db>>
    /\ UNCHANGED served

(* ---------------------------- QueueListener --------------------------- *)

DbOutcomes == {"ok", "raises"}

\* QueueListener.handle: every handler of the listener, in order; an exception
\* of a handler's emit ends the loop
RECURSIVE Handle(_, _, _, _, _)
Handle(i, hs, record, dbOutcome, acc) ==
    IF i > Len(hs) THEN acc
    ELSE IF hs[i].kind = INTERNAL_T
    THEN IF Filtered(hs[i], record) THEN Handle(i + 1, hs, record, dbOutcome, acc)
         ELSE IF dbOutcome = "raises" THEN [acc EXCEPT !.raised = TRUE]
         ELSE Handle(i + 1, hs, record, dbOutcome,
                     [acc EXCEPT !.db = Append(@, construct_message(hs[i], record))])
    ELSE IF hs[i].kind = SYSLOG_T
    THEN Handle(i + 1, hs, record, dbOutcome, [acc EXCEPT !.syslog = Append(@, record.id)])
    ELSE Handle(i + 1, hs, record, dbOutcome, [acc EXCEPT !.file = Append(@, record.id)])

HasDbHandler(hs) == \E i \in 1..Len(hs) : hs[i].kind = INTERNAL_T

\* listener.start()
ListenerStart ==
    /\ listener.state = "created"
    /\ listener' = [listener EXCEPT !.state = "running"]
    /\ UNCHANGED <<pc, settings, call, handlers, rootHandlers, rootLevel, foreign,
                   disable, excepthook, queue, dequeued, records, dropped, console, file,
                   syslog, db, errors, hook, defaultCalls>>
    /\ UNCHANGED served

\* one turn of QueueListener._monitor: dequeue, then the sentinel ends the
\* thread and a record is handled; an exception out of handle ends the thread
Dequeue ==
    /\ listener.state \in {"running", "stopping"}
    /\ queue # <<>>
    /\ queue' = Tail(queue)
    /\ IF Head(queue) = Sentinel
       THEN /\ listener' = [listener EXCEPT !.state = "stopped"]
            /\ UNCHANGED <<dequeued, file, syslog, db>>
       ELSE \E dbOutcome \in (IF HasDbHandler(listener.handlers)
                                THEN DbOutcomes ELSE {"ok"}) :
              LET acc == Handle(1, listener.handlers, Head(queue), dbOutcome,
                                [file |-> file, syslog |-> syslog, db |-> db,
                                 raised |-> FALSE])
              IN  /\ dequeued' = Append(dequeued, Head(queue).id)
                  /\ file' = acc.file
                  /\ syslog' = acc.syslog
                  /\ db' = acc.db
                  /\ listener' = IF acc.raised
                                 THEN [listener EXCEPT !.state = "crashed"]
                                 ELSE listener
    /\ UNCHANGED <<pc, settings, call, handlers, rootHandlers, rootLevel, foreign,
                   disable, excepthook, records, dropped, console, errors, hook,
                   defaultCalls>>
    /\ UNCHANGED served

\* listener.stop(): enqueue the sentinel and join the thread
ListenerStop ==
    /\ listener.state \in {"running", "crashed"}
    /\ queue' = Append(queue, Sentinel)
    /\ listener' = [listener EXCEPT
                       !.state = IF @ = "crashed" THEN "crashed_stopped" ELSE "stopping"]
    /\ UNCHANGED <<pc, settings, call, handlers, rootHandlers, rootLevel, foreign,
                   disable, excepthook, dequeued, records, dropped, console, file,
                   syslog, db, errors, hook, defaultCalls>>
    /\ UNCHANGED served

(* ------------------------------ middleware ---------------------------- *)
(* The stack of the examples: StructlogMiddleware wraps AccessLogMiddleware, *)
(* which wraps the application.                                            *)

\* correlation_id.get(): None, the empty string, or the id of the request
CorrelationIds == {"None", "", "id-1", "id-2"}

\* `if request_id := correlation_id.get()`
Truthy(request_id) == request_id \notin {"None", ""}

\* the ASGI scopes: an http scope has a method, a websocket scope has none
Scopes ==
    [type : {"http"}, method : {"GET", "POST"}, session : BOOLEAN]
        \cup [type : {"websocket"}, method : {"None"}, session : {FALSE}]

\* AccessLogMiddleware(methods=...): None, or the methods to log
MethodFilters == {{}, {"GET"}}

\* the status of an http.response.start message; "299" is no member of
\* http.HTTPStatus
Statuses == {"200", "299"}

\* the members of HTTPStatus the model uses
KnownStatuses == {"200", "500"}

\* how the application ends: it returns, raises an Exception, or raises a
\* BaseException that is no Exception
AppOutcomes == {"return", "RuntimeError", "CancelledError"}

\* isinstance(exc, Exception)
IsException(exc) == exc \in {"RuntimeError", "KeyError"}

\* no request is being served
NoRequest(methods) ==
    [pc |-> "idle", methods |-> methods,
     scope |-> [type |-> "none", method |-> "None", session |-> FALSE],
     cid |-> "None", response |-> "unset", sent |-> "unset", outcome |-> "none",
     exc |-> "none", first |-> 0, passed |-> FALSE]

\* structlog.contextvars.bind_contextvars(k=v) for a value that is no dict
bind_contextvars(context, k, v) == {e \in context : e[1][1] # k} \cup {<<(<<k>>), v>>}

\* the context that keeps what earlier requests bound
StructlogContext_NoClear(context, request_id) ==
    IF Truthy(request_id) THEN bind_contextvars(context, "request_id", request_id)
    ELSE context

\* StructlogMiddleware.__call__, lines 34-37: clear_contextvars, then
\* request_id is bound when the correlation id is truthy
StructlogContext(context, request_id) ==
    IF Truthy(request_id) THEN bind_contextvars(EmptyDict, "request_id", request_id)
    ELSE EmptyDict

\* StructlogMiddleware.__call__ up to `await self.app(scope, receive, send)`
StructlogMiddlewareCall ==
    /\ pc = "configured"
    /\ mw.pc = "idle"
    /\ \E scope \in Scopes, cid \in CorrelationIds :
         /\ ctx' = StructlogContext(ctx, cid)
         /\ mw' = [NoRequest(mw.methods) EXCEPT !.pc = "access", !.scope = scope,
                                                !.cid = cid]
    /\ UNCHANGED <<pc, settings, call, handlers, rootHandlers, rootLevel, foreign,
                   disable, excepthook, listener, queue, dequeued, records, dropped,
                   console, file, syslog, db, errors, hook, defaultCalls, proc>>

\* the request dict bound by AccessLogMiddleware, lines 154-162
AccessContext(context, scope) ==
    LET bound == SetItem(context, "request", {<<(<<"method">>), scope.method>>})
    IN  IF scope.session THEN SetItem(bound, "session", {<<(<<"user_id">>), "7">>})
        ELSE bound

\* AccessLogMiddleware.__call__ up to its `await self.app(...)`: the method
\* filter reads scope['method'] before the type is looked at
AccessLogMiddlewareCall ==
    /\ mw.pc = "access"
    /\ IF mw.methods # {} /\ mw.scope.method = "None"
       THEN /\ mw' = [mw EXCEPT !.pc = "access_done", !.exc = "KeyError"]
            /\ UNCHANGED ctx
       ELSE IF mw.scope.type # "http"
               \/ (mw.methods # {} /\ mw.scope.method \notin mw.methods)
       THEN /\ mw' = [mw EXCEPT !.pc = "passthrough"]
            /\ UNCHANGED ctx
       ELSE /\ mw' = [mw EXCEPT !.pc = "app", !.passed = TRUE,
                                !.first = Len(records)]
            /\ ctx' = AccessContext(ctx, mw.scope)
    /\ UNCHANGED <<pc, settings, call, handlers, rootHandlers, rootLevel, foreign,
                   disable, excepthook, listener, queue, dequeued, records, dropped,
                   console, file, syslog, db, errors, hook, defaultCalls, proc>>

\* the application sends http.response.start: send_wrapper keeps the message
AppSend ==
    /\ mw.pc \in {"app", "passthrough"}
    /\ mw.sent = "unset"
    /\ \E status \in Statuses :
         mw' = [mw EXCEPT !.sent = status,
                          !.response = IF mw.pc = "app" THEN status ELSE @]
    /\ UNCHANGED <<pc, settings, call, handlers, rootHandlers, rootLevel, foreign,
                   disable, excepthook, listener, queue, dequeued, records, dropped,
                   console, file, syslog, db, errors, hook, defaultCalls, ctx, proc>>

\* the application binds a context variable of its own
AppBind ==
    /\ mw.pc \in {"app", "passthrough"}
    /\ ctx' = bind_contextvars(ctx, "user_id", "3")
    /\ UNCHANGED <<pc, settings, call, handlers, rootHandlers, rootLevel, foreign,
                   disable, excepthook, listener, queue, dequeued, records, dropped,
                   console, file, syslog, db, errors, hook, defaultCalls, mw, proc>>

\* info['response'] after the except clause: an Exception sets the status
ResponseStatus(response, outcome) == IF IsException(outcome) THEN "500" ELSE response

\* AccessLogAtoms(scope, info), for the atoms modelled
AccessLogAtoms(scope, status) ==
    {<<(<<"s">>), status>>, <<(<<"m">>), scope.method>>}
        \cup (IF scope.session THEN {<<(<<"session", "user_id">>), "7">>} ELSE {})

\* the application is over: the except and finally clauses of
\* AccessLogMiddleware.__call__, lines 167-179, or the plain return of line 144
AccessLogMiddlewareFinish ==
    /\ mw.pc \in {"app", "passthrough"}
    /\ LogCalls + defaultCalls < MaxRecords
    /\ \E outcome \in AppOutcomes, emit \in (IF HasQueueHandler THEN EmitOutcomes ELSE {"ok"}) :
         LET raised == IF outcome = "return" THEN "none" ELSE outcome
             status == ResponseStatus(mw.response, outcome)
         IN  IF mw.pc = "passthrough"
             THEN /\ mw' = [mw EXCEPT !.pc = "access_done", !.outcome = outcome,
                                      !.exc = raised]
                  /\ UNCHANGED <<ctx, records, dropped, console, queue, errors>>
             ELSE IF status = "unset"
             THEN \* info['response']['status'] of line 175 raises KeyError
                  /\ mw' = [mw EXCEPT !.pc = "access_done", !.outcome = outcome,
                                      !.response = status, !.exc = "KeyError"]
                  /\ UNCHANGED <<ctx, records, dropped, console, queue, errors>>
             ELSE IF status \notin KnownStatuses
             THEN \* HTTPStatus.get(status) of line 198 raises KeyError
                  /\ mw' = [mw EXCEPT !.pc = "access_done", !.outcome = outcome,
                                      !.response = status, !.exc = "KeyError"]
                  /\ ctx' = SetItem(ctx, "response", {<<(<<"status_code">>), status>>})
                  /\ UNCHANGED <<records, dropped, console, queue, errors>>
             ELSE /\ mw' = [mw EXCEPT !.pc = "access_done", !.outcome = outcome,
                                      !.response = status, !.exc = raised]
                  /\ ctx' = SetItem(ctx, "response", {<<(<<"status_code">>), status>>})
                  /\ LogCall("api.access", INFO, AccessLogAtoms(mw.scope, status),
                             "access", "none", emit)
    /\ UNCHANGED <<pc, settings, call, handlers, rootHandlers, rootLevel, foreign,
                   disable, excepthook, listener, dequeued, file, syslog, db, hook,
                   defaultCalls, proc>>

\* StructlogMiddleware.__call__ after the await: an Exception is logged by
\* 'api.error' and goes no further, anything else goes on to the caller
StructlogMiddlewareFinish ==
    /\ mw.pc = "access_done"
    /\ LogCalls + defaultCalls < MaxRecords
    /\ \E emit \in (IF HasQueueHandler /\ IsException(mw.exc) THEN EmitOutcomes ELSE {"ok"}) :
         IF IsException(mw.exc)
         THEN LogCall("api.error", ERROR, EmptyDict, mw.exc, mw.exc, emit)
         ELSE UNCHANGED <<records, dropped, console, queue, errors>>
    /\ mw' = NoRequest(mw.methods)
    /\ UNCHANGED <<pc, settings, call, handlers, rootHandlers, rootLevel, foreign,
                   disable, excepthook, listener, dequeued, file, syslog, db, hook,
                   defaultCalls, ctx, proc>>

(* ----------------------------- processors ---------------------------- *)

\* the list configure_processor starts from, lines 85-97
SharedProcessors ==
    << "merge_contextvars", "add_logger_name", "add_log_level",
       "sanitize_authorization_token", "add_app_context",
       "PositionalArgumentsFormatter", "ExtraAdder", "drop_color_message_key",
       "TimeStamper", "StackInfoRenderer", "EventRenamer" >>

\* list.insert(i, x), i counted from 0
Insert(seq, i, x) == SubSeq(seq, 1, i) \o <<x>> \o SubSeq(seq, i + 1, Len(seq))

\* configure_processor(json_logs=, traceback_as_str=), with the module's
\* find_structlog_sentry
configure_processor(json_logs, traceback_as_str, find_structlog_sentry) ==
    LET shared == IF find_structlog_sentry
                  THEN Insert(SharedProcessors, 3, "SentryProcessor")
                  ELSE SharedProcessors
        dicts == IF json_logs /\ ~traceback_as_str
                 THEN Append(shared, "dict_tracebacks") ELSE shared
    IN  IF json_logs /\ traceback_as_str THEN Append(dicts, "format_exc_info")
        ELSE dicts

\* the path of the token in an event dict
AuthorizationPath == <<"http", "headers", "authorization">>

\* path p starts with the path q
StartsWith(p, q) == Len(p) >= Len(q) /\ SubSeq(p, 1, Len(q)) = q

\* 'authorization' in event_dict['http']['headers']
HasAuthorization(event_dict) == \E e \in event_dict : StartsWith(e[1], AuthorizationPath)

\* sanitize_authorization_token: headers.pop('authorization', None) when
\* event_dict.get('http', {}).get('headers') is a dict that is not empty
sanitize_authorization_token(event_dict) ==
    LET headers == Sub(Sub(event_dict, "http"), "headers")
        popped == {e \in event_dict : ~StartsWith(e[1], AuthorizationPath)}
    IN  IF headers = {} THEN event_dict
        ELSE IF \E e \in popped : StartsWith(e[1], <<"http", "headers">>) THEN popped
        ELSE popped \cup {<<(<<"http", "headers">>), "{}">>}

\* merge_contextvars: the context variables the event does not set itself
merge_contextvars(context, event_dict) ==
    event_dict \cup {e \in context : ~HasKey(event_dict, e[1][1])}

\* the method names of the bound logger and their levels
MethodLevel(method_name) == IF method_name = "error" THEN ERROR ELSE INFO

\* SentryProcessor(event_level=logging.ERROR): the events it captures
SentryCaptures(event_dict) ==
    /\ HasKey(event_dict, "level")
    /\ MethodLevel(Get(event_dict, "level")) >= ERROR

\* one processor called with the event dict: what it returns
Process(name, logger, method_name, event_dict) ==
    IF name = "merge_contextvars" THEN merge_contextvars(ctx, event_dict)
    ELSE IF name = "add_logger_name" THEN bind_contextvars(event_dict, "logger", logger)
    ELSE IF name = "add_log_level" THEN bind_contextvars(event_dict, "level", method_name)
    ELSE IF name = "sanitize_authorization_token"
    THEN sanitize_authorization_token(event_dict)
    ELSE event_dict

\* the event dicts of the log calls followed through the chain
Events ==
    { EmptyDict,
      {<<AuthorizationPath, "Bearer">>},
      {<<AuthorizationPath, "Bearer">>, <<(<<"http", "headers", "host">>), "h">>},
      {<<(<<"http", "headers", "host">>), "h">>} }

\* no processor chain is followed
NoProc ==
    [pc |-> "none", json_logs |-> TRUE, traceback_as_str |-> TRUE,
     find_structlog_sentry |-> FALSE, chain |-> <<>>, i |-> 0, method |-> "info",
     event |-> EmptyDict, sentry |-> {}, rendered |-> {}]

\* the arguments of configure_processor and the outcome of the import of
\* structlog_sentry
ProcInputs ==
    { [NoProc EXCEPT !.pc = "start", !.json_logs = j, !.traceback_as_str = t,
                     !.find_structlog_sentry = f] : j, t, f \in BOOLEAN }

\* shared_processors = configure_processor(...)
ConfigureProcessor ==
    /\ proc.pc = "start"
    /\ proc' = [proc EXCEPT !.pc = "built",
                            !.chain = configure_processor(proc.json_logs,
                                          proc.traceback_as_str,
                                          proc.find_structlog_sentry)]
    /\ UNCHANGED <<pc, settings, call, handlers, rootHandlers, rootLevel, foreign,
                   disable, excepthook, listener, queue, dequeued, records, dropped,
                   console, file, syslog, db, errors, hook, defaultCalls, ctx, mw>>

\* a log call enters the chain: log.info(**event), log.error(**event)
ProcessEvent ==
    /\ proc.pc \in {"built", "rendered"}
    /\ \E method \in {"info", "error"}, event \in Events :
         proc' = [proc EXCEPT !.pc = "running", !.i = 1, !.method = method,
                              !.event = event]
    /\ UNCHANGED <<pc, settings, call, handlers, rootHandlers, rootLevel, foreign,
                   disable, excepthook, listener, queue, dequeued, records, dropped,
                   console, file, syslog, db, errors, hook, defaultCalls, ctx, mw>>

\* the next processor of the chain is called; SentryProcessor sends what it is
\* given, and after the last processor the event goes to the renderer
RunProcessor ==
    /\ proc.pc = "running"
    /\ LET name == proc.chain[proc.i]
           event == Process(name, "default", proc.method, proc.event)
           last == proc.i = Len(proc.chain)
       IN  proc' = [proc EXCEPT
                       !.event = event,
                       !.sentry = IF name = "SentryProcessor" /\ SentryCaptures(proc.event)
                                  THEN @ \cup {proc.event} ELSE @,
                       !.rendered = IF last THEN @ \cup {event} ELSE @,
                       !.i = IF last THEN 0 ELSE @ + 1,
                       !.pc = IF last THEN "rendered" ELSE "running"]
    /\ UNCHANGED <<pc, settings, call, handlers, rootHandlers, rootLevel, foreign,
                   disable, excepthook, listener, queue, dequeued, records, dropped,
                   console, file, syslog, db, errors, hook, defaultCalls, ctx, mw>>

(* --------------------------- specification ---------------------------- *)

LevelNames == {"DEBUG", "INFO", "WARNING", "ERROR", "CRITICAL"}

\* every LogSettings the model draws from
SettingsSpace ==
    [types : SUBSET LogTypes, filename : BOOLEAN, syslog_host : BOOLEAN,
     debug : BOOLEAN, log_level : LevelNames, enable : BOOLEAN]

\* the keyword arguments: those of the database handler are given together
\* with model and db_url, or not at all
CallSpace ==
    { kw \in [model : BOOLEAN, db_url : BOOLEAN, search_paths : SearchPathArgs,
              available_loggers : {{}, {"api.access"}}] :
        (kw.model /\ kw.db_url) \/ (kw.search_paths = {} /\ kw.available_loggers = {}) }

\* the settings of the running system: the default log_level
RunSettings == {st \in SettingsSpace : st.log_level = "INFO"}

\* its keyword arguments: no database, or one without filters
RunCalls ==
    { kw \in CallSpace :
        /\ kw.model = kw.db_url
        /\ kw.search_paths = {} /\ kw.available_loggers = {} }

\* the settings and arguments of a system that logs into the database
DbSettings ==
    { st \in SettingsSpace :
        /\ st.types = {INTERNAL_T}
        /\ ~st.filename /\ ~st.syslog_host
        /\ ~st.debug /\ st.enable /\ st.log_level = "INFO" }

DbCalls == {kw \in CallSpace : kw.model /\ kw.db_url}

InitWith(S, C) ==
    /\ pc = "start"
    /\ settings \in S
    /\ call \in C
    /\ handlers = [t \in LogTypes |-> NoHandler]
    /\ rootHandlers = <<>>
    /\ rootLevel = WARNING
    /\ foreign \in SUBSET {"api.access"}
    /\ disable = NOTSET
    /\ excepthook = "default"
    /\ listener = NoListener
    /\ queue = <<>>
    /\ dequeued = <<>>
    /\ records = <<>>
    /\ dropped = <<>>
    /\ console = <<>>
    /\ file = <<>>
    /\ syslog = <<>>
    /\ db = <<>>
    /\ errors = <<>>
    /\ hook = <<>>
    /\ defaultCalls = 0
    /\ ctx = EmptyDict

Init ==
    /\ InitWith(RunSettings, RunCalls)
    /\ mw = NoRequest({})
    /\ proc = NoProc

Next ==
    \/ SetupLogger
    \/ Log
    \/ UncaughtException
    \/ ListenerStart
    \/ Dequeue
    \/ ListenerStop

\* the running system
Spec == Init /\ [][Next]_vars

InitSetup ==
    /\ InitWith(SettingsSpace, CallSpace)
    /\ mw = NoRequest({})
    /\ proc = NoProc

\* setup_logger alone, over every configuration
SpecSetup == InitSetup /\ [][SetupLogger]_vars

InitDb ==
    /\ InitWith(DbSettings, DbCalls)
    /\ mw = NoRequest({})
    /\ proc = NoProc

NextDb ==
    \/ SetupLogger
    \/ LogData
    \/ ListenerStart
    \/ Dequeue
    \/ ListenerStop

\* the system logging into the database
SpecDb == InitDb /\ [][NextDb]_vars

\* the settings of a system serving requests: logging enabled at INFO, to the
\* console alone or to the console and the file
MwSettings ==
    { st \in RunSettings :
        /\ st.types \in {{CONSOLE_T}, {CONSOLE_T, FILE_T}}
        /\ st.filename /\ ~st.syslog_host /\ ~st.debug /\ st.enable }

MwCalls == {kw \in RunCalls : ~kw.model}

InitMw ==
    /\ InitWith(MwSettings, MwCalls)
    /\ mw \in {NoRequest(methods) : methods \in MethodFilters}
    /\ proc = NoProc

NextMw ==
    \/ SetupLogger
    \/ StructlogMiddlewareCall
    \/ AccessLogMiddlewareCall
    \/ AppSend
    \/ AppBind
    \/ AccessLogMiddlewareFinish
    \/ StructlogMiddlewareFinish

\* the middleware stack serving requests
SpecMw == InitMw /\ [][NextMw]_vars

InitProc ==
    /\ InitWith(MwSettings, MwCalls)
    /\ mw = NoRequest({})
    /\ proc \in ProcInputs

NextProc ==
    \/ ConfigureProcessor
    \/ ProcessEvent
    \/ RunProcessor

\* events going through the processor chain
SpecProc == InitProc /\ [][NextProc]_vars

(* ------------------------------ claims -------------------------------- *)

Ids(seq) == {seq[i] : i \in DOMAIN seq}

\* ids of the records waiting in the queue
QueueIds == {queue[i].id : i \in DOMAIN queue} \ {Sentinel.id}

DbIds == {db[i].id : i \in DOMAIN db}

Count(seq, x) == Cardinality({i \in DOMAIN seq : seq[i] = x})

\* the enabled types that are not the console
QueuedTypes == settings.types \ {CONSOLE_T}

\* the record on which a handler of the listener raised: the last one taken
RaisedOn(k) ==
    listener.state \in {"crashed", "crashed_stopped"} /\ k = Len(dequeued)

C2_EmitAtMostOnce ==
    /\ \A i \in DOMAIN records :
           LET enqueued == Cardinality({q \in DOMAIN queue : queue[q].id = i})
                               + Count(dequeued, i)
           IN  /\ enqueued <= 1
               /\ Count(errors, i) <= 1
               /\ Count(errors, i) = 1 => enqueued = 0
               /\ HasQueueHandler => enqueued + Count(errors, i) = 1
    /\ (pc = "configured" /\ LogCalls + defaultCalls < MaxRecords) => ENABLED Log

\* C2 witness: one emit failed and went to handleError, another record waits
\* in the queue of a listener that was never started
C2_Witness ==
    /\ listener.state = "created"
    /\ errors # <<>>
    /\ QueueIds # {}

\* C3: when setup returns, it returns a QueueListener whose handlers are
\* exactly the registered handlers of the enabled non-console types (with the
\* QueueHandler on the root logger) if some non-console type is enabled, and
\* None, with no QueueHandler on the root logger, if none is.
C3_ReturnsListener ==
    pc = "configured" =>
        IF QueuedTypes # {}
        THEN /\ listener.state = "created"
             /\ Len(listener.handlers) = Cardinality(QueuedTypes)
             /\ {listener.handlers[i] : i \in DOMAIN listener.handlers}
                    = {handlers[t] : t \in QueuedTypes}
             /\ \A i \in DOMAIN listener.handlers :
                    listener.handlers[i].kind \in QueuedTypes
             /\ HasQueueHandler
        ELSE /\ listener = NoListener
             /\ ~HasQueueHandler

\* C3 witness: setup returned a listener for two queued types, with a third
\* handler registered but not enabled
C3_Witness ==
    /\ pc = "configured"
    /\ settings.types = {CONSOLE_T, INTERNAL_T, FILE_T}
    /\ handlers[SYSLOG_T] # NoHandler
    /\ Len(listener.handlers) = Cardinality(QueuedTypes)

\* C4: with a non-empty available_loggers handed to setup_logger, every row
\* written to the database comes from a logger named in available_loggers.
C4_OnlyAvailableLoggers ==
    call.available_loggers # {} =>
        \A r \in DOMAIN db : db[r].logger \in call.available_loggers

\* the value at source[k1]..[kn] for the search path handed to setup_logger
SearchedValue(record, name) ==
    PathValue(record.data, (CHOOSE sp \in call.search_paths : sp[1] = name)[2], 1)

\* C5: with search_paths handed to setup_logger, a row's attribute that has a
\* search path holds the value found along that path in the record (here
\* user_id, read from ['session', 'user_id']), when the record has no such
\* key at its top level.
C5_SearchPathsUsed ==
    (\E sp \in call.search_paths : sp[1] = "user_id") =>
        \A r \in DOMAIN db :
            ~HasKey(records[db[r].id].data, "user_id") =>
                db[r].user_id = SearchedValue(records[db[r].id], "user_id")

\* C6: after setup the root logger level is DEBUG when settings.debug is
\* true, whatever log_level is, and the level named by settings.log_level
\* when it is false.
C6_RootLevel ==
    pc = "configured" =>
        /\ settings.debug => rootLevel = DEBUG
        /\ ~settings.debug =>
               rootLevel = (CASE settings.log_level = "DEBUG" -> DEBUG
                              [] settings.log_level = "INFO" -> INFO
                              [] settings.log_level = "WARNING" -> WARNING
                              [] settings.log_level = "ERROR" -> ERROR
                              [] settings.log_level = "CRITICAL" -> CRITICAL)

\* C6 witness: debug is set, log_level is ERROR, and setup has run
C6_Witness ==
    /\ pc = "configured"
    /\ settings.debug
    /\ settings.log_level = "ERROR"

\* C7: with settings.enable false no log call at any level from DEBUG to
\* CRITICAL creates a record, so no sink and no queue ever holds one; with
\* settings.enable true a call is refused only below the root level, and
\* every call at or above it is handed to the handlers of the root logger
\* (the console sink, the queue).
C7_Enable ==
    pc = "configured" =>
        /\ ~settings.enable =>
               /\ records = <<>> /\ queue \in {<<>>, <<Sentinel>>} /\ errors = <<>>
               /\ console = <<>> /\ file = <<>> /\ syslog = <<>> /\ db = <<>>
        /\ settings.enable =>
               /\ \A d \in DOMAIN dropped : dropped[d].levelno < rootLevel
               /\ \A i \in DOMAIN records :
                      /\ records[i].levelno >= rootLevel
                      /\ CONSOLE_T \in settings.types => i \in Ids(console)
                      /\ QueuedTypes # {} =>
                             i \in QueueIds \cup Ids(dequeued) \cup Ids(errors)

\* C7 witness: logging is disabled, and a CRITICAL call and the ERROR call of
\* the exception hook have both been refused
C7_Witness ==
    /\ ~settings.enable
    /\ settings.types = LogTypes
    /\ listener.state = "running"
    /\ \E d \in DOMAIN dropped : dropped[d].levelno = CRITICAL
    /\ \E d \in DOMAIN dropped : dropped[d].levelno = ERROR

\* the sink a handler of a type writes to
SinkOf(t) ==
    CASE t = CONSOLE_T -> console
      [] t = FILE_T -> file
      [] t = SYSLOG_T -> syslog
      [] t = INTERNAL_T -> db

\* C8: a handler of a type that settings.types does not list is neither on
\* the root logger nor among the listener's handlers, and its sink receives
\* no record, whether or not a handler was registered for the type.
C8_OnlyListedTypes ==
    \A t \in LogTypes \ settings.types :
        /\ \A i \in DOMAIN rootHandlers : rootHandlers[i].kind # t
        /\ \A i \in DOMAIN listener.handlers : listener.handlers[i].kind # t
        /\ SinkOf(t) = <<>>

\* C8 witness: a file handler was registered because filename is set, file is
\* not listed, and a record has reached the console and the syslog sink
C8_Witness ==
    /\ settings.filename /\ handlers[FILE_T] # NoHandler
    /\ settings.types = {CONSOLE_T, SYSLOG_T}
    /\ console # <<>> /\ syslog # <<>>

\* C9: setup raises ValueError whenever a type listed in settings.types has
\* no registered handler; through setup_logger that is file without
\* filename, syslog without syslog.host, internal without model and db_url
\* both given.
C9_RaisesWhenUnregistered ==
    pc # "start" =>
        /\ (\E t \in settings.types : handlers[t] = NoHandler) => pc = "failed"
        /\ (FILE_T \in settings.types /\ ~settings.filename) => pc = "failed"
        /\ (SYSLOG_T \in settings.types /\ ~settings.syslog_host) => pc = "failed"
        /\ (INTERNAL_T \in settings.types /\ ~(call.model /\ call.db_url))
               => pc = "failed"

\* C9 witness: internal is listed, a model is given without db_url, and
\* setup has raised
C9_Witness ==
    /\ pc = "failed"
    /\ INTERNAL_T \in settings.types
    /\ call.model /\ ~call.db_url
    /\ settings.filename /\ settings.syslog_host

KeyboardInterrupts == {"KeyboardInterrupt", "Interrupted"}

\* the log calls made with the event 'Uncaught exception'
UncaughtRecords == SelectSeq(records, LAMBDA r : r.event = "Uncaught exception")
UncaughtDropped == SelectSeq(dropped, LAMBDA d : d.event = "Uncaught exception")

\* C10: the hook installed by setup calls the default excepthook once for
\* every KeyboardInterrupt (or subclass) and logs nothing for it, and for
\* every other exception makes exactly one log call, 'Uncaught exception' at
\* ERROR level with the exception as exc_info, without calling the default
\* hook.
C10_ExceptHook ==
    /\ pc = "configured" => excepthook = "handle_exception"
    /\ defaultCalls = Len(SelectSeq(hook, LAMBDA e : e \in KeyboardInterrupts))
    /\ Len(UncaughtRecords) + Len(UncaughtDropped)
           = Len(SelectSeq(hook, LAMBDA e : e \notin KeyboardInterrupts))
    /\ \A i \in DOMAIN UncaughtRecords :
           /\ UncaughtRecords[i].levelno = ERROR
           /\ UncaughtRecords[i].exc_info \notin KeyboardInterrupts \cup {"none"}
    /\ \A d \in DOMAIN UncaughtDropped : UncaughtDropped[d].levelno = ERROR
    /\ UncaughtDropped = <<>> =>
           [i \in DOMAIN UncaughtRecords |-> UncaughtRecords[i].exc_info]
               = SelectSeq(hook, LAMBDA e : e \notin KeyboardInterrupts)

\* C10 witness: the hook has seen a subclass of KeyboardInterrupt and a
\* ValueError, and the ValueError is on record
C10_Witness ==
    /\ hook = <<"Interrupted", "ValueError">>
    /\ defaultCalls = 1
    /\ \E i \in DOMAIN records : records[i].exc_info = "ValueError"

\* the records that came out of AccessLogMiddleware
AccessRecords == {i \in DOMAIN records : records[i].name = "api.access"}

\* C11: at the moment StructlogMiddleware invokes the wrapped app, the structlog
\* context holds request_id = the correlation id when one is set, and nothing
\* when none is set; whatever an earlier request bound is gone.
C11_ContextAtInvocation ==
    mw.pc = "access" =>
        ctx = IF Truthy(mw.cid) THEN {<<(<<"request_id">>), mw.cid>>} ELSE EmptyDict

\* a second request is handed to the wrapped app after an earlier one went
\* through the access log, which bound request and response
C11_Witness ==
    /\ mw.pc = "access"
    /\ Truthy(mw.cid)
    /\ AccessRecords # {}
    /\ ~HasKey(ctx, "request") /\ ~HasKey(ctx, "response")

\* the place of a processor in the chain, 0 when it is not there
RECURSIVE IndexOf(_, _, _)
IndexOf(chain, name, i) ==
    IF i > Len(chain) THEN 0
    ELSE IF chain[i] = name THEN i
    ELSE IndexOf(chain, name, i + 1)

\* C12: in the chain configure_processor builds, sanitize_authorization_token
\* comes before the Sentry processor, and neither Sentry nor the renderer is
\* ever handed an event that holds http.headers.authorization.
C12_TokenNeverLeaves ==
    /\ (proc.pc # "start" /\ proc.find_structlog_sentry) =>
           IndexOf(proc.chain, "sanitize_authorization_token", 1)
               < IndexOf(proc.chain, "SentryProcessor", 1)
    /\ \A e \in proc.sentry \cup proc.rendered : ~HasAuthorization(e)

\* C13: when AccessLogMiddleware is through with an HTTP request that passed
\* the method filter, it has emitted exactly one access-log record; the record
\* carries the status of the http.response.start message when the app returned,
\* and status 500 when the app raised, in which case the caller gets the same
\* exception.
C13_OneAccessRecord ==
    (mw.pc = "access_done" /\ mw.passed) =>
        /\ Len(records) = mw.first + 1
        /\ records[Len(records)].name = "api.access"
        /\ IF mw.outcome = "return"
           THEN /\ Get(records[Len(records)].data, "s") = mw.sent
                /\ mw.exc = "none"
           ELSE /\ Get(records[Len(records)].data, "s") = "500"
                /\ mw.exc = mw.outcome

\* C14: a record on which DatabaseHandler.emit raised has all the same reached
\* the file and the syslog sink when these are enabled, and the failure leaves
\* the listener's thread alive, so that the records behind it in the queue are
\* delivered as well.
C14_FailureDoesNotStopDelivery ==
    pc = "configured" =>
        /\ \A k \in DOMAIN dequeued :
               /\ FILE_T \in settings.types => dequeued[k] \in Ids(file)
               /\ SYSLOG_T \in settings.types => dequeued[k] \in Ids(syslog)
        /\ listener.state \notin {"crashed", "crashed_stopped"}

\* stop() has returned: the sentinel was put and the join of the thread is over
StopReturned == listener.state \in {"stopped", "crashed_stopped"}

\* C15: setup leaves the listener it returns unstarted, and until start() no
\* record leaves the queue or reaches a queued sink; every enabled queued sink
\* receives the records taken off the queue once each and in the order of
\* their emission; and when stop() has returned no record that was enqueued
\* before it is left in the queue.
C15_StartOrderStop ==
    (pc = "configured" /\ listener.state # "none") =>
        /\ listener.state = "created" =>
               dequeued = <<>> /\ file = <<>> /\ syslog = <<>> /\ db = <<>>
        /\ FILE_T \in settings.types => file = dequeued
        /\ SYSLOG_T \in settings.types => syslog = dequeued
        /\ INTERNAL_T \in settings.types => [r \in DOMAIN db |-> db[r].id] = dequeued
        /\ \A i, j \in DOMAIN dequeued : i < j => dequeued[i] < dequeued[j]
        /\ StopReturned =>
               ~\E i, j \in DOMAIN queue :
                    i < j /\ queue[i] # Sentinel /\ queue[j] = Sentinel

====
